---- MODULE Spec2Model ----
(***************************************************************************)
(* The schedule controller of autoblogger: the start/stop handlers, the    *)
(* background loop cron_function and the manual generate-and-publish path, *)
(* in both revisions of the program (autoblogger.py, where the schedule    *)
(* state lives in st.session_state, and OLD_autoblogger.py, where it lives *)
(* in module globals).  The variable rev says which revision runs.         *)
(*                                                                         *)
(* Processes: one foreground script run per UI session (fpc) and the loop  *)
(* threads the start handler spawns (tpc).  Every shared-memory access of  *)
(* a handler or of the loop is a step of its own, so that every            *)
(* interleaving of the handlers with the loop is a behaviour.  A loop      *)
(* thread reads the flag of the session whose script run spawned it.       *)
(*                                                                         *)
(* Time is counted in seconds, on the grid of the 5-second poll.  Plain    *)
(* computation takes no time: Tick is enabled only when every process is   *)
(* asleep, blocked on the lock, idle, or inside a network call.            *)
(* next_run_time is kept as the time still to go (due).  While more than   *)
(* horizon seconds are to go only that fact is kept (due = interval): the  *)
(* countdown then either stays there or reaches horizon.  With             *)
(* horizon = interval the countdown is exact.                              *)
(*                                                                         *)
(* The specifications: Spec, the start and stop handlers of every session  *)
(* of autoblogger.py with the loops they spawn; SpecManual, the same with  *)
(* the manual trigger and the loop of the first start; SpecOneLoop,        *)
(* autoblogger.py with one loop at a time, under fairness; SpecStop, the   *)
(* same with one script run at a time; SpecForm, one loop at a time,       *)
(* started with whatever the form holds; SpecCadence, one loop on the      *)
(* exact clock; SpecOld, the start and stop handlers and the loops of      *)
(* OLD_autoblogger.py.                                                     *)
(***************************************************************************)
EXTENDS Integers, Sequences, FiniteSets, TLC

\* ---------------------------------------------------------------- bounds
MaxThreads == 2
MaxKwLen == 2

\* ------------------------------------------------------ program constants
interval == 1800
PollSleep == 5
RetrySleep == 30
Created == 201
NoThread == 0

Current == "autoblogger.py"
Old == "OLD_autoblogger.py"
Revisions == {Current, Old}

Sessions == {"s1", "s2"}
Threads == 1..MaxThreads

TickStep == PollSleep
StopCap == RetrySleep + PollSleep

VARIABLES
  rev,                \* the revision that runs
  horizon,            \* how far ahead the countdown to next_run_time is exact
  session_state,      \* autoblogger.py: st.session_state of each UI session
  cron_running_flag,  \* OLD_autoblogger.py: the global flag
  cron_thread,        \* OLD_autoblogger.py: the global thread handle
  cron_lock,          \* the holder of cron_lock, or NoThread
  fpc,                \* where each session's script run is
  keyword_list,       \* manual trigger: keyword_list of the request
  m_content,          \* manual trigger: blog_content of the request
  m_pubCalls,         \* manual trigger: publish calls of the request
  response,           \* manual trigger: what requests.post did
  success,            \* manual trigger: success = publish_blog_post(...)
  nthreads,           \* threads spawned so far
  tpc,                \* where each loop thread is
  owner,              \* the session whose script run spawned the thread
  given,              \* the form of that session when start was clicked
  due,                \* next_run_time - now (OLD: polls left, in seconds)
  sleepLeft,          \* what is left of the thread's time.sleep
  elapsed,            \* time since the cycle read current_time
  blog_content,       \* blog_content of the cycle
  pubCalls,           \* publish calls of the cycle
  request,            \* blog_topic and keywords of the cycle
  stopPc,             \* where the thread was when its flag was cleared
  stopAge,            \* time since the thread's flag was cleared
  sinceCycle,         \* time since the loop started, or started its last cycle
  retry               \* the loop's last cycle ended in its except clause

fgVars == <<fpc, keyword_list, m_content, m_pubCalls, response, success>>
flagVars == <<session_state, cron_running_flag, cron_thread>>
cycleVars == <<elapsed, blog_content, pubCalls, request>>
histVars == <<stopPc, stopAge>>
watchVars == <<sinceCycle, retry>>
thrVars == <<tpc, owner, given, due, sleepLeft>>
vars == <<rev, horizon, session_state, cron_running_flag, cron_thread, cron_lock,
          fpc, keyword_list, m_content, m_pubCalls, response, success, nthreads,
          tpc, owner, given, due, sleepLeft, elapsed, blog_content, pubCalls,
          request,
          stopPc, stopAge, sinceCycle, retry>>

\* ------------------------------------------------------------- the state
Running(s) ==
  IF rev = Old THEN cron_running_flag ELSE session_state[s].cron_running

Alive(t) == tpc[t] \notin {"unborn", "done"}

AliveLoops == {t \in Threads : Alive(t)}

\* The threads that read the flag session s writes.
Readers(s) == {t \in Threads : Alive(t) /\ (rev = Old \/ owner[t] = s)}

InStart(s) == fpc[s] \in {"start_check", "start_set", "start_spawn"}

\* The title is left out of the forms: the loop derives its own from the clock.
FixedTopic == "Technology Trends"
FixedKeywords == <<"AI", "software development", "automation">>

\* The form when "Start Cron Job" is clicked: blog_topic and the keyword list
\* of the keywords text.
StartForms ==
  {[blog_topic |-> FixedTopic, keywords |-> FixedKeywords],
   [blog_topic |-> "Artificial Intelligence", keywords |-> <<"a">>]}

\* The form left empty; also the request of a loop that is in no cycle.
EmptyForm == [blog_topic |-> "", keywords |-> <<>>]

\* No response: requests.post has not been called.
NoResponse == [raised |-> FALSE, status_code |-> 0, json |-> FALSE]

InitOf(r, h) ==
  /\ rev = r
  /\ horizon = h
  /\ session_state = [s \in Sessions |-> [cron_running |-> FALSE, cron_thread |-> NoThread]]
  /\ cron_running_flag = FALSE
  /\ cron_thread = NoThread
  /\ cron_lock = NoThread
  /\ fpc = [s \in Sessions |-> "idle"]
  /\ keyword_list = [s \in Sessions |-> <<>>]
  /\ m_content = [s \in Sessions |-> "unset"]
  /\ m_pubCalls = [s \in Sessions |-> 0]
  /\ response = [s \in Sessions |-> NoResponse]
  /\ success = [s \in Sessions |-> FALSE]
  /\ nthreads = 0
  /\ tpc = [t \in Threads |-> "unborn"]
  /\ owner = [t \in Threads |-> "none"]
  /\ given = [t \in Threads |-> EmptyForm]
  /\ due = [t \in Threads |-> 0]
  /\ sleepLeft = [t \in Threads |-> 0]
  /\ elapsed = [t \in Threads |-> 0]
  /\ blog_content = [t \in Threads |-> "unset"]
  /\ pubCalls = [t \in Threads |-> 0]
  /\ request = [t \in Threads |-> EmptyForm]
  /\ stopPc = [t \in Threads |-> "none"]
  /\ stopAge = [t \in Threads |-> 0]
  /\ sinceCycle = [t \in Threads |-> 0]
  /\ retry = [t \in Threads |-> FALSE]

\* ------------------------------------------------------------------ time
Max(a, b) == IF a > b THEN a ELSE b
Min(a, b) == IF a < b THEN a ELSE b

\* The values due takes: the grid up to horizon, and interval for "further".
DueValues == {x \in 0..horizon : x % TickStep = 0} \cup {interval}

\* One TickStep of the countdown.
Elapse(x) ==
  IF x > horizon THEN {interval, horizon} ELSE {Max(x - TickStep, 0)}

RunAgainAtOnce(el) == {0}

\* next_run_time = current_time + interval, el seconds after current_time was
\* read; el = horizon stands for "horizon or more".
NextDue(el) ==
  IF el < horizon
    THEN {IF interval - el > horizon THEN interval ELSE interval - el}
    ELSE {x \in DueValues : x <= horizon /\ x <= interval - el}
         \cup (IF interval - el > horizon THEN {interval} ELSE {})

\* ------------------------------------------------- the stop-watch of stop
\* stop() cleared the flag the threads R read: the watch starts for those
\* that are in a time.sleep of the wait.
MarkStop(R) ==
  /\ stopPc' = [t \in Threads |->
                  IF t \in R
                    THEN (IF tpc[t] \in {"sleep5", "sleep30"} THEN tpc[t] ELSE "none")
                    ELSE stopPc[t]]
  /\ stopAge' = [t \in Threads |-> IF t \in R THEN 0 ELSE stopAge[t]]
  /\ UNCHANGED watchVars

\* start() set the flag the threads R read.
ClearStop(R) ==
  /\ stopPc' = [t \in Threads |-> IF t \in R THEN "none" ELSE stopPc[t]]
  /\ stopAge' = [t \in Threads |-> IF t \in R THEN 0 ELSE stopAge[t]]
  /\ UNCHANGED watchVars

\* ------------------------------------------------- the watch of the cadence
\* The loop t starts, or starts a cycle: its watch starts again.
StartWatch(t) ==
  /\ sinceCycle' = [sinceCycle EXCEPT ![t] = 0]
  /\ retry' = [retry EXCEPT ![t] = FALSE]

\* ------------------------------------------------ the handlers: start, stop
\* Threads are numbered as they are spawned; a start is accepted only while a
\* thread is left for it.
Reserved == nthreads + Cardinality({s \in Sessions : InStart(s)})

\* The "Start Cron Job" button: the script run calls the start handler.
ClickStart(s) ==
  /\ fpc[s] = "idle"
  /\ Reserved < MaxThreads
  /\ fpc' = [fpc EXCEPT ![s] = "start_check"]
  /\ UNCHANGED <<rev, horizon, flagVars, cron_lock, keyword_list, m_content,
                 m_pubCalls, response, success, nthreads, thrVars, cycleVars, histVars, watchVars>>

\* The "Stop Cron Job" button: the script run calls stop_cron_job.
ClickStop(s) ==
  /\ fpc[s] = "idle"
  /\ fpc' = [fpc EXCEPT ![s] = IF rev = Old THEN "stop_set" ELSE "stop_check"]
  /\ UNCHANGED <<rev, horizon, flagVars, cron_lock, keyword_list, m_content,
                 m_pubCalls, response, success, nthreads, thrVars, cycleVars, histVars, watchVars>>

StartAlwaysSpawns(s) == TRUE

\* if not st.session_state["cron_running"]  /  if not cron_running_flag
StartGuard(s) == ~Running(s)

\* start: the test of the flag.
StartCheck(s) ==
  /\ fpc[s] = "start_check"
  /\ fpc' = [fpc EXCEPT ![s] = IF StartGuard(s) THEN "start_set" ELSE "start_else"]
  /\ UNCHANGED <<rev, horizon, flagVars, cron_lock, keyword_list, m_content,
                 m_pubCalls, response, success, nthreads, thrVars, cycleVars, histVars, watchVars>>

\* start: else: logging.info("Cron job is already running.")
StartElse(s) ==
  /\ fpc[s] = "start_else"
  /\ fpc' = [fpc EXCEPT ![s] = "idle"]
  /\ UNCHANGED <<rev, horizon, flagVars, cron_lock, keyword_list, m_content,
                 m_pubCalls, response, success, nthreads, thrVars, cycleVars, histVars, watchVars>>

\* autoblogger.py: st.session_state["cron_running"] = True
StartSet(s) ==
  /\ rev = Current
  /\ fpc[s] = "start_set"
  /\ session_state' = [session_state EXCEPT ![s].cron_running = TRUE]
  /\ ClearStop(Readers(s))
  /\ fpc' = [fpc EXCEPT ![s] = "start_spawn"]
  /\ UNCHANGED <<rev, horizon, cron_running_flag, cron_thread, cron_lock,
                 keyword_list, m_content, m_pubCalls, response, success, nthreads, thrVars, cycleVars>>

\* autoblogger.py: thread = threading.Thread(target=cron_function, daemon=True);
\* thread.start(); st.session_state["cron_thread"] = thread.  The thread starts
\* with interval = 1800; next_run_time = time.time() + interval.  form is
\* what the form holds: the call passes nothing of it on.
StartSpawnWith(s, form) ==
  /\ rev = Current
  /\ fpc[s] = "start_spawn"
  /\ nthreads < MaxThreads
  /\ nthreads' = nthreads + 1
  /\ tpc' = [tpc EXCEPT ![nthreads + 1] = "while"]
  /\ owner' = [owner EXCEPT ![nthreads + 1] = s]
  /\ given' = [given EXCEPT ![nthreads + 1] = form]
  /\ due' = [due EXCEPT ![nthreads + 1] = interval]
  /\ session_state' = [session_state EXCEPT ![s].cron_thread = nthreads + 1]
  /\ fpc' = [fpc EXCEPT ![s] = "idle"]
  /\ UNCHANGED <<rev, horizon, cron_running_flag, cron_thread, cron_lock,
                 keyword_list, m_content, m_pubCalls, response, success,
                 sleepLeft, cycleVars, histVars>>
  /\ StartWatch(nthreads + 1)

\* The start with the form left empty.
StartSpawn(s) == StartSpawnWith(s, EmptyForm)

\* autoblogger.py: if st.session_state["cron_running"]
StopCheck(s) ==
  /\ rev = Current
  /\ fpc[s] = "stop_check"
  /\ fpc' = [fpc EXCEPT ![s] = IF Running(s) THEN "stop_set" ELSE "stop_else"]
  /\ UNCHANGED <<rev, horizon, flagVars, cron_lock, keyword_list, m_content,
                 m_pubCalls, response, success, nthreads, thrVars, cycleVars, histVars, watchVars>>

\* autoblogger.py: else: logging.info("No cron job running.")
StopElse(s) ==
  /\ rev = Current
  /\ fpc[s] = "stop_else"
  /\ fpc' = [fpc EXCEPT ![s] = "idle"]
  /\ UNCHANGED <<rev, horizon, flagVars, cron_lock, keyword_list, m_content,
                 m_pubCalls, response, success, nthreads, thrVars, cycleVars, histVars, watchVars>>

StopLeavesFlag(s) == Running(s)

\* The value stop_cron_job writes: ... = False
StopValue(s) == FALSE

\* autoblogger.py: st.session_state["cron_running"] = False
StopSet(s) ==
  /\ rev = Current
  /\ fpc[s] = "stop_set"
  /\ session_state' = [session_state EXCEPT ![s].cron_running = StopValue(s)]
  /\ MarkStop(Readers(s))
  /\ fpc' = [fpc EXCEPT ![s] = "idle"]
  /\ UNCHANGED <<rev, horizon, cron_running_flag, cron_thread, cron_lock,
                 keyword_list, m_content, m_pubCalls, response, success, nthreads, thrVars, cycleVars>>

\* OLD_autoblogger.py: cron_running_flag = True
OldStartSet(s) ==
  /\ rev = Old
  /\ fpc[s] = "start_set"
  /\ cron_running_flag' = TRUE
  /\ ClearStop(Readers(s))
  /\ fpc' = [fpc EXCEPT ![s] = "start_spawn"]
  /\ UNCHANGED <<rev, horizon, session_state, cron_thread, cron_lock,
                 keyword_list, m_content, m_pubCalls, response, success, nthreads, thrVars, cycleVars>>

\* OLD_autoblogger.py: cron_thread = threading.Thread(target=cron_function,
\* daemon=True); cron_thread.start()
OldStartSpawn(s) ==
  /\ rev = Old
  /\ fpc[s] = "start_spawn"
  /\ nthreads < MaxThreads
  /\ nthreads' = nthreads + 1
  /\ tpc' = [tpc EXCEPT ![nthreads + 1] = "while"]
  /\ owner' = [owner EXCEPT ![nthreads + 1] = s]
  /\ given' = [given EXCEPT ![nthreads + 1] = EmptyForm]
  /\ cron_thread' = nthreads + 1
  /\ fpc' = [fpc EXCEPT ![s] = "idle"]
  /\ UNCHANGED <<rev, horizon, session_state, cron_running_flag, cron_lock,
                 keyword_list, m_content, m_pubCalls, response, success, due,
                 sleepLeft, cycleVars, histVars>>
  /\ StartWatch(nthreads + 1)

\* OLD_autoblogger.py: stop_cron_job clears the flag whatever it was.
OldStopSet(s) ==
  /\ rev = Old
  /\ fpc[s] = "stop_set"
  /\ cron_running_flag' = StopValue(s)
  /\ IF cron_running_flag THEN MarkStop(Readers(s)) ELSE UNCHANGED <<histVars, watchVars>>
  /\ fpc' = [fpc EXCEPT ![s] = "idle"]
  /\ UNCHANGED <<rev, horizon, session_state, cron_thread, cron_lock,
                 keyword_list, m_content, m_pubCalls, response, success, nthreads, thrVars, cycleVars>>

\* ------------------------------------------------- the remote services
\* What asyncio.run(generate_blog_content(...)) gives its caller: the text, None
\* (the call failed and generate_blog_content caught it), or an exception.
GenOutcomes == {"html", "None", "raise"}

\* What requests.post does: an exception, or a response with a status code
\* and a body that response.json() parses (json) or raises on.
PostOutcomes ==
  {[raised |-> FALSE, status_code |-> c, json |-> TRUE] : c \in {200, Created, 500}}
    \cup {[raised |-> FALSE, status_code |-> Created, json |-> FALSE],
          [raised |-> TRUE, status_code |-> 0, json |-> FALSE]}

\* publish_blog_post's result for what requests.post did: True after
\* logging.info(..., response.json().get('id')) for a 201, False for another
\* status, False from the except clause.
publish_blog_post(r) ==
  IF r.raised THEN FALSE
  ELSE IF r.status_code = Created THEN r.json
  ELSE FALSE

\* ------------------------------------------------- the loop, cron_function
ResetStop(t) ==
  /\ stopPc' = [stopPc EXCEPT ![t] = "none"]
  /\ stopAge' = [stopAge EXCEPT ![t] = 0]
  /\ StartWatch(t)

\* while st.session_state["cron_running"]  /  while cron_running_flag
While(t) ==
  /\ tpc[t] = "while"
  /\ IF Running(owner[t])
       THEN /\ tpc' = [tpc EXCEPT ![t] = "acquire"]
            /\ UNCHANGED <<histVars, watchVars>>
       ELSE /\ tpc' = [tpc EXCEPT ![t] = "done"]
            /\ ResetStop(t)
  /\ UNCHANGED <<rev, horizon, flagVars, cron_lock, fgVars, nthreads, owner, given,
                 due, sleepLeft, cycleVars>>

RequestFromForm(t) == given[t]

\* blog_topic = "Technology Trends"; keywords = ["AI", "software development",
\* "automation"]: what the cycle calls generate_blog_content with.
CycleRequest(t) == [blog_topic |-> FixedTopic, keywords |-> FixedKeywords]

\* with cron_lock: the thread waits until the lock is free.
\* autoblogger.py goes on to the test of the time, OLD_autoblogger.py starts
\* the cycle at once.
Acquire(t) ==
  /\ tpc[t] = "acquire"
  /\ cron_lock = NoThread
  /\ cron_lock' = t
  /\ IF rev = Old
       THEN /\ tpc' = [tpc EXCEPT ![t] = "gen"]
            /\ blog_content' = [blog_content EXCEPT ![t] = "unset"]
            /\ pubCalls' = [pubCalls EXCEPT ![t] = 0]
            /\ request' = [request EXCEPT ![t] = CycleRequest(t)]
            /\ StartWatch(t)
       ELSE /\ tpc' = [tpc EXCEPT ![t] = "check"]
            /\ UNCHANGED <<blog_content, pubCalls, request, watchVars>>
  /\ UNCHANGED <<rev, horizon, flagVars, fgVars, nthreads, owner, given, due,
                 sleepLeft, elapsed, histVars>>

\* time.sleep(5)
PollTime == PollSleep

\* autoblogger.py: current_time = time.time(); if current_time >= next_run_time
\* the cycle starts with the call of generate_blog_content, else time.sleep(5).
Check(t) ==
  /\ rev = Current
  /\ tpc[t] = "check"
  /\ IF due[t] = 0
       THEN /\ tpc' = [tpc EXCEPT ![t] = "gen"]
            /\ elapsed' = [elapsed EXCEPT ![t] = 0]
            /\ blog_content' = [blog_content EXCEPT ![t] = "unset"]
            /\ pubCalls' = [pubCalls EXCEPT ![t] = 0]
            /\ request' = [request EXCEPT ![t] = CycleRequest(t)]
            /\ StartWatch(t)
            /\ UNCHANGED sleepLeft
       ELSE /\ tpc' = [tpc EXCEPT ![t] = "sleep5"]
            /\ sleepLeft' = [sleepLeft EXCEPT ![t] = PollTime]
            /\ UNCHANGED <<cycleVars, watchVars>>
  /\ UNCHANGED <<rev, horizon, flagVars, cron_lock, fgVars, nthreads, owner, given,
                 due, histVars>>

PublishWhatever(t, c) == "pub"

PublishOnlyWhileRunning(t, c) ==
  IF c = "html" /\ Running(owner[t]) THEN "pub" ELSE "resched"

\* if blog_content: publish_blog_post(...) else: logging.error(...)
AfterGenerate(t, c) == IF c = "html" THEN "pub" ELSE "resched"

ExceptionEndsLoop(t) == "done"

\* except Exception as e: logging.error(...); time.sleep(30)
OnException(t) == "sleep30"

\* The call of generate_blog_content returns, or raises.
\* autoblogger.py: the except clause is inside "with cron_lock".
\* OLD_autoblogger.py: the exception leaves "with cron_lock" first, and a
\* cycle that does not publish leaves it for the wait.
GenReturn(t) ==
  /\ tpc[t] = "gen"
  /\ \E c \in GenOutcomes :
       IF c = "raise"
         THEN /\ tpc' = [tpc EXCEPT ![t] = OnException(t)]
              /\ sleepLeft' = [sleepLeft EXCEPT ![t] = RetrySleep]
              /\ cron_lock' = IF rev = Old THEN NoThread ELSE cron_lock
              /\ request' = [request EXCEPT ![t] = EmptyForm]
              /\ retry' = [retry EXCEPT ![t] = TRUE]
              /\ UNCHANGED <<blog_content, pubCalls, due, sinceCycle>>
         ELSE /\ blog_content' = [blog_content EXCEPT ![t] = c]
              /\ LET to == AfterGenerate(t, c) IN
                   /\ request' = IF to = "pub" THEN request
                                  ELSE [request EXCEPT ![t] = EmptyForm]
                   /\ tpc' = [tpc EXCEPT ![t] =
                                IF rev = Old /\ to = "resched" THEN "poll" ELSE to]
                   /\ pubCalls' = [pubCalls EXCEPT ![t] =
                                     IF to = "pub" THEN @ + 1 ELSE @]
                   /\ cron_lock' = IF rev = Old /\ to = "resched"
                                     THEN NoThread ELSE cron_lock
                   /\ due' = IF rev = Old /\ to = "resched"
                               THEN [due EXCEPT ![t] = interval] ELSE due
              /\ UNCHANGED <<sleepLeft, watchVars>>
  /\ UNCHANGED <<rev, horizon, flagVars, fgVars, nthreads, owner, given, elapsed,
                 histVars>>

\* publish_blog_post returns; the loop drops its result.
\* OLD_autoblogger.py leaves "with cron_lock" for the wait of interval // 5 polls.
PubReturn(t) ==
  /\ tpc[t] = "pub"
  /\ \E r \in PostOutcomes :
       /\ publish_blog_post(r) \in BOOLEAN
       /\ tpc' = [tpc EXCEPT ![t] = IF rev = Old THEN "poll" ELSE "resched"]
  /\ cron_lock' = IF rev = Old THEN NoThread ELSE cron_lock
  /\ due' = IF rev = Old THEN [due EXCEPT ![t] = interval] ELSE due
  /\ request' = [request EXCEPT ![t] = EmptyForm]
  /\ UNCHANGED <<rev, horizon, flagVars, fgVars, nthreads, owner, given, sleepLeft,
                 elapsed, blog_content, pubCalls, histVars, watchVars>>

\* autoblogger.py: next_run_time = current_time + interval, and the end of
\* "with cron_lock".
Resched(t) ==
  /\ rev = Current
  /\ tpc[t] = "resched"
  /\ \E d \in NextDue(elapsed[t]) : due' = [due EXCEPT ![t] = d]
  /\ cron_lock' = NoThread
  /\ tpc' = [tpc EXCEPT ![t] = "while"]
  /\ elapsed' = [elapsed EXCEPT ![t] = 0]
  /\ blog_content' = [blog_content EXCEPT ![t] = "unset"]
  /\ pubCalls' = [pubCalls EXCEPT ![t] = 0]
  /\ UNCHANGED <<rev, horizon, flagVars, fgVars, nthreads, owner, given, sleepLeft,
                 request, histVars, watchVars>>

\* autoblogger.py: time.sleep(5) is over; the end of "with cron_lock".
Wake5(t) ==
  /\ rev = Current
  /\ tpc[t] = "sleep5"
  /\ sleepLeft[t] = 0
  /\ cron_lock' = NoThread
  /\ tpc' = [tpc EXCEPT ![t] = "while"]
  /\ UNCHANGED <<rev, horizon, flagVars, fgVars, nthreads, owner, given, due,
                 sleepLeft, cycleVars, histVars, watchVars>>

\* time.sleep(30) is over; autoblogger.py: the end of "with cron_lock".
Wake30(t) ==
  /\ tpc[t] = "sleep30"
  /\ sleepLeft[t] = 0
  /\ cron_lock' = IF rev = Old THEN cron_lock ELSE NoThread
  /\ tpc' = [tpc EXCEPT ![t] = "while"]
  /\ UNCHANGED <<rev, horizon, flagVars, fgVars, nthreads, owner, given, due,
                 sleepLeft, cycleVars, histVars, watchVars>>

\* OLD_autoblogger.py: for _ in range(interval // 5): if not cron_running_flag:
\* return; else time.sleep(5).  The loop ends when no poll is left.
OldPoll(t) ==
  /\ rev = Old
  /\ tpc[t] = "poll"
  /\ IF due[t] = 0
       THEN /\ tpc' = [tpc EXCEPT ![t] = "while"]
            /\ UNCHANGED <<sleepLeft, histVars, watchVars>>
       ELSE IF ~cron_running_flag
         THEN /\ tpc' = [tpc EXCEPT ![t] = "done"]
              /\ ResetStop(t)
              /\ UNCHANGED sleepLeft
         ELSE /\ tpc' = [tpc EXCEPT ![t] = "sleep5"]
              /\ sleepLeft' = [sleepLeft EXCEPT ![t] = PollTime]
              /\ UNCHANGED <<histVars, watchVars>>
  /\ UNCHANGED <<rev, horizon, flagVars, cron_lock, fgVars, nthreads, owner, given,
                 due, cycleVars>>

\* OLD_autoblogger.py: time.sleep(5) is over: one poll less.
OldWake5(t) ==
  /\ rev = Old
  /\ tpc[t] = "sleep5"
  /\ sleepLeft[t] = 0
  /\ \E d \in Elapse(due[t]) : due' = [due EXCEPT ![t] = d]
  /\ tpc' = [tpc EXCEPT ![t] = "poll"]
  /\ UNCHANGED <<rev, horizon, flagVars, cron_lock, fgVars, nthreads, owner, given,
                 sleepLeft, cycleVars, histVars, watchVars>>

\* ------------------------------------------------------ the manual trigger
\* The texts of the form: a title and a topic, and the keyword text as a
\* sequence of characters.
Titles == {"", "The Future of AI"}
Topics == {"", "Artificial Intelligence"}
Chars == {",", " ", "a"}
KeywordTexts == UNION {[1..n -> Chars] : n \in 0..MaxKwLen}

RECURSIVE split(_)
\* keywords.split(",")
split(w) ==
  IF \A i \in 1..Len(w) : w[i] # ","
    THEN <<w>>
    ELSE LET i == CHOOSE k \in 1..Len(w) :
                    w[k] = "," /\ \A j \in 1..(k - 1) : w[j] # ","
         IN <<SubSeq(w, 1, i - 1)>> \o split(SubSeq(w, i + 1, Len(w)))

RECURSIVE strip(_)
\* kw.strip()
strip(w) ==
  IF w = <<>> THEN w
  ELSE IF Head(w) = " " THEN strip(Tail(w))
  ELSE IF w[Len(w)] = " " THEN strip(SubSeq(w, 1, Len(w) - 1))
  ELSE w

\* [kw.strip() for kw in keywords.split(",") if kw.strip()]
KeywordList(keywords) ==
  LET parts == split(keywords)
      stripped == [i \in 1..Len(parts) |-> strip(parts[i])]
  IN SelectSeq(stripped, LAMBDA kw : kw # <<>>)

\* if not blog_title or not blog_topic or not keywords
FormIncomplete(blog_title, blog_topic, keywords) ==
  blog_title = "" \/ blog_topic = "" \/ keywords = <<>>

\* What the handler makes of a form: st.error, or the keyword list it calls
\* generate_blog_content with.
Request(blog_title, blog_topic, keywords) ==
  IF FormIncomplete(blog_title, blog_topic, keywords)
    THEN [valid |-> FALSE, keyword_list |-> <<>>]
    ELSE [valid |-> TRUE, keyword_list |-> KeywordList(keywords)]

Requests ==
  {Request(blog_title, blog_topic, keywords) :
     blog_title \in Titles, blog_topic \in Topics, keywords \in KeywordTexts}

ManualClearsFlag(s) == FALSE

\* The running flag as the manual trigger leaves it: it has no assignment to
\* st.session_state.
ManualFlag(s) == session_state[s].cron_running

\* The "Generate and Publish Blog Post" button: the test of the form, then
\* st.error or the keyword list.
ClickManual(s) ==
  /\ fpc[s] = "idle"
  /\ \E r \in Requests :
       /\ keyword_list' = [keyword_list EXCEPT ![s] = r.keyword_list]
       /\ fpc' = [fpc EXCEPT ![s] = IF r.valid THEN "m_call" ELSE "m_invalid"]
  /\ session_state' = [session_state EXCEPT ![s].cron_running = ManualFlag(s)]
  /\ UNCHANGED <<rev, horizon, cron_running_flag, cron_thread, cron_lock,
                 m_content, m_pubCalls, response, success, nthreads, thrVars,
                 cycleVars, histVars, watchVars>>

\* blog_content = asyncio.run(generate_blog_content(blog_title, blog_topic,
\* keyword_list)): the call is made.
ManualCall(s) ==
  /\ fpc[s] = "m_call"
  /\ fpc' = [fpc EXCEPT ![s] = "m_gen"]
  /\ keyword_list' = [keyword_list EXCEPT ![s] = <<>>]
  /\ UNCHANGED <<rev, horizon, flagVars, cron_lock, m_content, m_pubCalls,
                 response, success,
                 nthreads, thrVars, cycleVars, histVars, watchVars>>

\* st.error("Please fill in ..."): the script run ends.
ManualReject(s) ==
  /\ fpc[s] = "m_invalid"
  /\ fpc' = [fpc EXCEPT ![s] = "idle"]
  /\ UNCHANGED <<rev, horizon, flagVars, cron_lock, keyword_list, m_content,
                 m_pubCalls, response, success, nthreads, thrVars, cycleVars, histVars, watchVars>>

\* if blog_content: publish_blog_post(...) else: st.error(...)
ManualAfterGenerate(c) == IF c = "html" THEN "m_pub" ELSE "idle"

\* The call of generate_blog_content returns, or raises and ends the script run.
ManualGenReturn(s) ==
  /\ fpc[s] = "m_gen"
  /\ \E c \in GenOutcomes :
       IF c = "raise"
         THEN /\ fpc' = [fpc EXCEPT ![s] = "idle"]
              /\ UNCHANGED <<m_content, m_pubCalls>>
         ELSE /\ m_content' = [m_content EXCEPT ![s] =
                                 IF ManualAfterGenerate(c) = "m_pub" THEN c ELSE "unset"]
              /\ fpc' = [fpc EXCEPT ![s] = ManualAfterGenerate(c)]
              /\ m_pubCalls' = [m_pubCalls EXCEPT ![s] =
                                  IF ManualAfterGenerate(c) = "m_pub" THEN @ + 1 ELSE @]
  /\ UNCHANGED <<rev, horizon, flagVars, cron_lock, keyword_list, response,
                 success, nthreads, thrVars, cycleVars, histVars, watchVars>>

\* success = publish_blog_post(blog_title, blog_content)
ManualPubReturn(s) ==
  /\ fpc[s] = "m_pub"
  /\ \E r \in PostOutcomes :
       /\ response' = [response EXCEPT ![s] = r]
       /\ success' = [success EXCEPT ![s] = publish_blog_post(r)]
  /\ fpc' = [fpc EXCEPT ![s] = "m_report"]
  /\ UNCHANGED <<rev, horizon, flagVars, cron_lock, keyword_list, m_content,
                 m_pubCalls, nthreads, thrVars, cycleVars, histVars, watchVars>>

\* if success: st.success(...) else: st.error(...); the script run ends.
ManualReport(s) ==
  /\ fpc[s] = "m_report"
  /\ fpc' = [fpc EXCEPT ![s] = "idle"]
  /\ m_content' = [m_content EXCEPT ![s] = "unset"]
  /\ m_pubCalls' = [m_pubCalls EXCEPT ![s] = 0]
  /\ response' = [response EXCEPT ![s] = NoResponse]
  /\ success' = [success EXCEPT ![s] = FALSE]
  /\ UNCHANGED <<rev, horizon, flagVars, cron_lock, keyword_list, nthreads,
                 thrVars, cycleVars, histVars, watchVars>>

\* ---------------------------------------------------------- time passing
\* A step the process takes without waiting.
UrgentThread(t) ==
  \/ tpc[t] \in {"while", "check", "resched", "poll"}
  \/ tpc[t] \in {"sleep5", "sleep30"} /\ sleepLeft[t] = 0
  \/ tpc[t] = "acquire" /\ cron_lock = NoThread

UrgentSession(s) == fpc[s] \notin {"idle", "m_gen", "m_pub"}

\* The countdown to next_run_time runs on the clock in autoblogger.py; in
\* OLD_autoblogger.py the wait counts its polls (OldWake5).
ElapseOf(t) ==
  IF rev = Current /\ Alive(t) THEN Elapse(due[t]) ELSE {due[t]}

\* TickStep seconds pass.
Tick ==
  /\ \A t \in Threads : ~UrgentThread(t)
  /\ \A s \in Sessions : ~UrgentSession(s)
  /\ sleepLeft' = [t \in Threads |->
                     IF tpc[t] \in {"sleep5", "sleep30"}
                       THEN sleepLeft[t] - TickStep ELSE sleepLeft[t]]
  /\ due' \in {f \in [Threads -> UNION {ElapseOf(t) : t \in Threads}] :
                 \A t \in Threads : f[t] \in ElapseOf(t)}
  /\ elapsed' = [t \in Threads |->
                   IF tpc[t] \in {"gen", "pub"}
                     THEN Min(elapsed[t] + TickStep, horizon) ELSE elapsed[t]]
  /\ stopAge' = [t \in Threads |->
                   IF Alive(t) /\ stopPc[t] # "none"
                     THEN Min(stopAge[t] + TickStep, StopCap) ELSE stopAge[t]]
  /\ sinceCycle' = [t \in Threads |->
                      IF Alive(t)
                        THEN Min(sinceCycle[t] + TickStep, horizon)
                        ELSE sinceCycle[t]]
  /\ UNCHANGED <<rev, horizon, flagVars, cron_lock, fgVars, nthreads, tpc,
                 owner, given, blog_content, pubCalls, request, stopPc, retry>>

\* ------------------------------------------------------ the specification
\* The schedule controller of autoblogger.py: the start and stop handlers of
\* every session, the loop threads, and time.
Next ==
  \/ \E s \in Sessions : ClickStart(s)
  \/ \E s \in Sessions : StartCheck(s)
  \/ \E s \in Sessions : StartElse(s)
  \/ \E s \in Sessions : StartSet(s)
  \/ \E s \in Sessions : StartSpawn(s)
  \/ \E s \in Sessions : ClickStop(s)
  \/ \E s \in Sessions : StopCheck(s)
  \/ \E s \in Sessions : StopElse(s)
  \/ \E s \in Sessions : StopSet(s)
  \/ \E t \in Threads : While(t)
  \/ \E t \in Threads : Acquire(t)
  \/ \E t \in Threads : Check(t)
  \/ \E t \in Threads : GenReturn(t)
  \/ \E t \in Threads : PubReturn(t)
  \/ \E t \in Threads : Resched(t)
  \/ \E t \in Threads : Wake5(t)
  \/ \E t \in Threads : Wake30(t)
  \/ Tick

\* Only whether a cycle is due is kept of next_run_time.
Init == InitOf(Current, 0)

Spec == Init /\ [][Next]_vars

\* autoblogger.py with the manual trigger: every session's three buttons, start
\* being clicked only until a loop has been spawned.
NextManual ==
  \/ \E s \in Sessions : ClickManual(s)
  \/ \E s \in Sessions : ManualReject(s)
  \/ \E s \in Sessions : ManualCall(s)
  \/ \E s \in Sessions : ManualGenReturn(s)
  \/ \E s \in Sessions : ManualPubReturn(s)
  \/ \E s \in Sessions : ManualReport(s)
  \/ \E s \in Sessions : nthreads = 0 /\ ClickStart(s)
  \/ \E s \in Sessions : StartCheck(s)
  \/ \E s \in Sessions : StartSet(s)
  \/ \E s \in Sessions : StartSpawn(s)
  \/ \E s \in Sessions : ClickStop(s)
  \/ \E s \in Sessions : StopCheck(s)
  \/ \E s \in Sessions : StopElse(s)
  \/ \E s \in Sessions : StopSet(s)
  \/ \E t \in Threads : While(t)
  \/ \E t \in Threads : Acquire(t)
  \/ \E t \in Threads : Check(t)
  \/ \E t \in Threads : GenReturn(t)
  \/ \E t \in Threads : PubReturn(t)
  \/ \E t \in Threads : Resched(t)
  \/ \E t \in Threads : Wake5(t)
  \/ \E t \in Threads : Wake30(t)
  \/ Tick

SpecManual == Init /\ [][NextManual]_vars

\* autoblogger.py with one loop at a time: start is clicked only while no loop
\* is alive and none is being started.
NextOneLoop ==
  \/ \E s \in Sessions : AliveLoops = {} /\ Reserved = nthreads /\ ClickStart(s)
  \/ \E s \in Sessions : StartCheck(s)
  \/ \E s \in Sessions : StartSet(s)
  \/ \E s \in Sessions : StartSpawn(s)
  \/ \E s \in Sessions : ClickStop(s)
  \/ \E s \in Sessions : StopCheck(s)
  \/ \E s \in Sessions : StopElse(s)
  \/ \E s \in Sessions : StopSet(s)
  \/ \E t \in Threads : While(t)
  \/ \E t \in Threads : Acquire(t)
  \/ \E t \in Threads : Check(t)
  \/ \E t \in Threads : GenReturn(t)
  \/ \E t \in Threads : PubReturn(t)
  \/ \E t \in Threads : Resched(t)
  \/ \E t \in Threads : Wake5(t)
  \/ \E t \in Threads : Wake30(t)
  \/ Tick

\* A script run and a thread that can take a step take it; a network call
\* returns or raises; time passes, and next_run_time comes.
Fairness ==
  /\ \A s \in Sessions :
       WF_vars(StartCheck(s) \/ StartSet(s) \/ StartSpawn(s)
                 \/ StopCheck(s) \/ StopElse(s) \/ StopSet(s))
  /\ \A t \in Threads :
       WF_vars(While(t) \/ Acquire(t) \/ Check(t) \/ Resched(t)
                 \/ Wake5(t) \/ Wake30(t))
  /\ \A t \in Threads : WF_vars(GenReturn(t)) /\ WF_vars(PubReturn(t))
  /\ SF_vars(Tick)
  /\ SF_vars(Tick /\ due' # due)

SpecOneLoop == Init /\ [][NextOneLoop]_vars /\ Fairness

\* autoblogger.py with one loop at a time, started with whatever the form
\* holds.
NextForm ==
  \/ \E s \in Sessions : AliveLoops = {} /\ Reserved = nthreads /\ ClickStart(s)
  \/ \E s \in Sessions : StartCheck(s)
  \/ \E s \in Sessions : StartSet(s)
  \/ \E s \in Sessions, form \in StartForms : StartSpawnWith(s, form)
  \/ \E s \in Sessions : ClickStop(s)
  \/ \E s \in Sessions : StopCheck(s)
  \/ \E s \in Sessions : StopElse(s)
  \/ \E s \in Sessions : StopSet(s)
  \/ \E t \in Threads : While(t)
  \/ \E t \in Threads : Acquire(t)
  \/ \E t \in Threads : Check(t)
  \/ \E t \in Threads : GenReturn(t)
  \/ \E t \in Threads : PubReturn(t)
  \/ \E t \in Threads : Resched(t)
  \/ \E t \in Threads : Wake5(t)
  \/ \E t \in Threads : Wake30(t)
  \/ Tick

SpecForm == Init /\ [][NextForm]_vars

\* The schedule controller of OLD_autoblogger.py.
NextOld ==
  \/ \E s \in Sessions : ClickStart(s)
  \/ \E s \in Sessions : StartCheck(s)
  \/ \E s \in Sessions : StartElse(s)
  \/ \E s \in Sessions : OldStartSet(s)
  \/ \E s \in Sessions : OldStartSpawn(s)
  \/ \E s \in Sessions : ClickStop(s)
  \/ \E s \in Sessions : OldStopSet(s)
  \/ \E t \in Threads : While(t)
  \/ \E t \in Threads : Acquire(t)
  \/ \E t \in Threads : GenReturn(t)
  \/ \E t \in Threads : PubReturn(t)
  \/ \E t \in Threads : Wake30(t)
  \/ \E t \in Threads : OldPoll(t)
  \/ \E t \in Threads : OldWake5(t)
  \/ Tick

InitOld == InitOf(Old, 0)

SpecOld == InitOld /\ [][NextOld]_vars

\* ============================================================ the claims
\* ------------------------------------------------------------------- C1
\* C1: in every reachable state at most one cron_function loop is alive in
\* the process, whatever starts and stops were interleaved with the loop.
AtMostOneLoop == Cardinality(AliveLoops) <= 1

\* ------------------------------------------------------------------- C2
\* The thread whose handle the session keeps.
Handle(s) == IF rev = Old THEN cron_thread ELSE session_state[s].cron_thread

\* C2: a start that finds the controller Running is a no-op: it takes the
\* else branch, spawns no thread, leaves every flag, handle and loop as they
\* were, and the loop the earlier start spawned is still alive with the flag
\* true.
StartWhileRunningIsNoOp ==
  /\ [](\A s \in Sessions :
          fpc[s] = "start_else" =>
            Running(s) /\ Handle(s) # NoThread /\ Alive(Handle(s)))
  /\ [][\A s \in Sessions :
          (fpc[s] = "start_check" /\ Running(s) /\ fpc'[s] # "start_check") =>
            /\ fpc'[s] = "start_else"
            /\ nthreads' = nthreads
            /\ tpc' = tpc
            /\ flagVars' = flagVars]_vars

\* C2: the second of two starts has found the flag set; the first start's
\* loop is the one loop there is.
SecondStartFoundRunning ==
  \E s \in Sessions :
    /\ fpc[s] = "start_else"
    /\ nthreads = 1
    /\ AliveLoops = {Handle(s)}

\* ------------------------------------------------------------------- C3
\* stop() has completed in session s and no start has been called since.
Stopped(s) == ~Running(s) /\ fpc[s] = "idle"

\* C3: once stop() has completed and until a later start(), no step of the
\* loop begins a generate/publish cycle.
NoCycleAfterStop ==
  [][\A t \in Threads :
       (Alive(t) /\ tpc[t] # "gen" /\ tpc'[t] = "gen") => ~Stopped(owner[t])]_vars

\* ------------------------------------------------------------------- C4
\* C4: a loop whose flag stop() cleared while it was in a time.sleep of its
\* wait (after a failed cycle too) has exited once one polling quantum of 5
\* seconds has passed.
StopWithinQuantum ==
  \A t \in Threads :
    (Alive(t) /\ stopPc[t] # "none") =>
      stopAge[t] <= PollSleep

\* ------------------------------------------------------------------- C5
\* C5: a cycle in flight is not interrupted by stop(): whatever the flag is,
\* a generation that returned content is followed by the publish call, the
\* publish call returns into the end of the cycle (the rescheduling, or the
\* wait of OLD_autoblogger.py), no step of a handler moves the loop, and the
\* loop ends only where it reads the flag, outside the cycle.
InFlightCycleCompletes ==
  [][\A t \in Threads :
       /\ (tpc[t] = "gen" /\ tpc'[t] # "gen" /\ blog_content'[t] = "html") =>
            tpc'[t] = "pub"
       /\ (tpc[t] = "pub" /\ tpc'[t] # "pub") => tpc'[t] \in {"resched", "poll"}
       /\ (Alive(t) /\ tpc'[t] = "done") => tpc[t] \in {"while", "poll"}
       /\ (Alive(t) /\ fpc' # fpc) => tpc'[t] = tpc[t]]_vars

\* C5: stop() has completed while the cycle's publish call is in flight.
PublishingWhileStopped ==
  \E t \in Threads :
    /\ tpc[t] = "pub"
    /\ blog_content[t] = "html"
    /\ Stopped(owner[t])

\* ------------------------------------------------------------------- C6
\* The flag the loop reads is set.
LoopRunning(t) == owner[t] \in Sessions /\ Running(owner[t])

\* A cycle of the loop has failed: generate_blog_content returned None or
\* raised, or it returned content and publish_blog_post is over.
AfterCycle(t) == tpc[t] \in {"resched", "sleep30"}

\* C6: a failure inside a cycle never ends the loop: after a generation that
\* returned no content, a publish that failed or an exception the loop is
\* alive and on its way back to the top of the loop, the loop ends only by
\* reading a cleared flag there, and unless the controller is stopped a
\* further cycle begins.
FailureKeepsLoopAlive ==
  /\ [][\A t \in Threads :
          /\ (tpc[t] = "gen" /\ tpc'[t] # "gen") =>
               tpc'[t] \in {"pub", "resched", "sleep30"}
          /\ (tpc[t] = "pub" /\ tpc'[t] # "pub") => tpc'[t] = "resched"
          /\ (AfterCycle(t) /\ tpc'[t] # tpc[t]) => tpc'[t] = "while"
          /\ (Alive(t) /\ ~Alive(t)') =>
               (tpc[t] = "while" /\ ~Running(owner[t]))]_vars
  /\ \A t \in Threads :
       AfterCycle(t) ~> (tpc[t] = "gen" \/ ~LoopRunning(t))

\* C6: the cycle raised and its time.sleep(30) is over: the loop is alive
\* and about to go back to the top, the controller still Running.
AliveAfterException ==
  \E t \in Threads :
    /\ tpc[t] = "sleep30"
    /\ sleepLeft[t] = 0
    /\ Running(owner[t])

\* ------------------------------------------------------------------- C7
\* C7: publish_blog_post is called only with the content generate_blog_content
\* returned in the same cycle or request, at most once in it, and never after a
\* generation that returned none.
PublishGatedOnGeneration ==
  /\ \A t \in Threads :
       /\ pubCalls[t] <= 1
       /\ tpc[t] = "pub" => pubCalls[t] = 1
       /\ pubCalls[t] = 1 => blog_content[t] = "html"
  /\ \A s \in Sessions :
       /\ m_pubCalls[s] <= 1
       /\ fpc[s] = "m_pub" => m_pubCalls[s] = 1
       /\ m_pubCalls[s] = 1 => m_content[s] = "html"

\* C7: a cycle and a request both in their publish call, and another state
\* where a cycle whose generation returned None goes on without one.
BothPublishing ==
  \E t \in Threads, s \in Sessions :
    /\ tpc[t] = "pub" /\ pubCalls[t] = 1
    /\ fpc[s] = "m_pub" /\ m_pubCalls[s] = 1

\* ------------------------------------------------------------------- C8
\* The start handler has found the controller stopped and is on its way to
\* spawn a loop.
PassedCheck(s) == fpc[s] \in {"start_set", "start_spawn"}

\* C8: the check and the set of start are one atomic step: of the start
\* requests running at the same time at most one finds the controller stopped,
\* so that two concurrent starts spawn one loop.
StartCheckAndSetAtomic ==
  Cardinality({s \in Sessions : PassedCheck(s)}) <= 1

\* ------------------------------------------------------------------- C9
\* The handlers never take cron_lock.
HandlerHoldsLock(s) == FALSE

\* C9: whoever is about to read or write the running flag holds cron_lock.
FlagAccessUnderLock ==
  /\ \A t \in Threads : tpc[t] \in {"while", "poll"} => cron_lock = t
  /\ \A s \in Sessions :
       fpc[s] \in {"start_check", "start_set", "stop_check", "stop_set"} =>
         HandlerHoldsLock(s)

\* ------------------------------------------------------------------ C10
\* C10: the loop does not hold cron_lock while generate_blog_content or
\* publish_blog_post is in flight, nor while it sleeps.
NoLockDuringCallOrSleep ==
  \A t \in Threads :
    tpc[t] \in {"gen", "pub", "sleep5", "sleep30"} => cron_lock # t

\* ------------------------------------------------------------------ C11
\* C11: the manual trigger calls generate_blog_content only with at least one
\* keyword left after splitting, trimming and dropping the empty tokens, and
\* never for a form whose title or topic is empty.
ManualRejectsNoKeywords ==
  /\ \A s \in Sessions : fpc[s] = "m_call" => keyword_list[s] # <<>>
  /\ \A blog_title \in Titles, blog_topic \in Topics, keywords \in KeywordTexts :
       (blog_title = "" \/ blog_topic = "") =>
         ~Request(blog_title, blog_topic, keywords).valid

\* ------------------------------------------------------------------ C12
\* C12: publish_blog_post reports success exactly when the service answered
\* 201: whatever requests.post did, the result is True for a response with
\* status 201 and False for any other status and for an exception.
PublishSucceedsIffCreated ==
  \A s \in Sessions :
    fpc[s] = "m_report" =>
      (success[s] = TRUE <=>
         (~response[s].raised /\ response[s].status_code = Created))

\* ------------------------------------------------------------------ C13
\* The script run of session s is in stop_cron_job.
InStop(s) == fpc[s] \in {"stop_check", "stop_set", "stop_else"}

\* C13: stop_cron_job returns with the controller Stopped whatever the state
\* it was called in, and starts or ends no loop by itself; called when the
\* controller is Stopped already, none of its steps changes the flag, the
\* thread handle or a loop.
StopLeavesStopped ==
  [][\A s \in Sessions :
       /\ (InStop(s) /\ fpc'[s] = "idle") =>
            (~Running(s)' /\ tpc' = tpc /\ nthreads' = nthreads)
       /\ (InStop(s) /\ ~Running(s) /\ fpc'[s] # fpc[s]) =>
            (flagVars' = flagVars /\ tpc' = tpc /\ nthreads' = nthreads
               /\ cron_lock' = cron_lock)]_vars

\* C13: a second stop after start and stop: it has found the flag cleared.
StopWhenStopped ==
  \E s \in Sessions :
    /\ fpc[s] = "stop_else"
    /\ ~Running(s)
    /\ Handle(s) # NoThread

\* ------------------------------------------------------------------ C14
\* The script run of session s is in the manual trigger.
InManual(s) ==
  fpc[s] \in {"m_call", "m_invalid", "m_gen", "m_pub", "m_report"}

\* C14: no step of the manual trigger, from the click to the end of the
\* script run and whatever its outcome, changes a running flag, a thread
\* handle, the lock or a loop.
ManualLeavesSchedule ==
  [][\A s \in Sessions :
       ((InManual(s) \/ InManual(s)') /\ fpc'[s] # fpc[s]) =>
         /\ flagVars' = flagVars
         /\ cron_lock' = cron_lock
         /\ nthreads' = nthreads
         /\ thrVars' = thrVars]_vars

\* C14: a manual request has published while the schedule of its session is
\* Running with its loop alive.
ManualDoneWhileRunning ==
  \E s \in Sessions :
    /\ fpc[s] = "m_report"
    /\ success[s] = TRUE
    /\ Running(s)
    /\ Alive(Handle(s))

InitCadence == InitOf(Current, interval)

NextCadence ==
  \/ \E s \in Sessions : Reserved = 0 /\ ClickStart(s)
  \/ \E s \in Sessions : StartCheck(s)
  \/ \E s \in Sessions : StartSet(s)
  \/ \E s \in Sessions : StartSpawn(s)
  \/ \E s \in Sessions : ClickStop(s)
  \/ \E s \in Sessions : StopCheck(s)
  \/ \E s \in Sessions : StopElse(s)
  \/ \E s \in Sessions : StopSet(s)
  \/ \E t \in Threads : While(t)
  \/ \E t \in Threads : Acquire(t)
  \/ \E t \in Threads : Check(t)
  \/ \E t \in Threads : GenReturn(t)
  \/ \E t \in Threads : PubReturn(t)
  \/ \E t \in Threads : Resched(t)
  \/ \E t \in Threads : Wake5(t)
  \/ \E t \in Threads : Wake30(t)
  \/ Tick

SpecCadence == InitCadence /\ [][NextCadence]_vars

\* The loop t starts a cycle: it goes on to call generate_blog_content.
CycleStart(t) == tpc[t] # "gen" /\ tpc'[t] = "gen"

\* C16 as stated: a loop starts a cycle only when a full interval has passed
\* since the loop started or since it started its previous cycle, also when
\* that cycle ended in the except clause.
CycleStartsIntervalApart ==
  [][\A t \in Threads : CycleStart(t) => sinceCycle[t] >= interval]_vars

\* C16: a loop starts a cycle only when a full interval has passed since the
\* loop started or since it started its previous cycle, unless that cycle
\* ended in the except clause: next_run_time is then left as it was, and the
\* next cycle starts after the time.sleep(30), RetrySleep or more after the
\* start of the failed one.
CycleStartsIntervalApartUnlessRetry ==
  [][\A t \in Threads :
       CycleStart(t) =>
         IF retry[t] THEN sinceCycle[t] >= RetrySleep
                     ELSE sinceCycle[t] >= interval]_vars

\* A loop is about to start a cycle again RetrySleep after the start of the
\* cycle that raised.
RetryAfterBackoff ==
  \E t \in Threads :
    /\ tpc[t] = "check"
    /\ due[t] = 0
    /\ retry[t]
    /\ sinceCycle[t] = RetrySleep

\* ---------------------------------------------------------------- C17
\* No handler is in flight: the script runs of the sessions come one after
\* another.
Quiet == \A s \in Sessions : fpc[s] = "idle"

\* autoblogger.py with one loop at a time and one script run at a time, under
\* Fairness: between two clicks time can pass.
NextStop ==
  \/ \E s \in Sessions :
       Quiet /\ AliveLoops = {} /\ Reserved = nthreads /\ ClickStart(s)
  \/ \E s \in Sessions : StartCheck(s)
  \/ \E s \in Sessions : StartSet(s)
  \/ \E s \in Sessions : StartSpawn(s)
  \/ \E s \in Sessions : Quiet /\ ClickStop(s)
  \/ \E s \in Sessions : StopCheck(s)
  \/ \E s \in Sessions : StopElse(s)
  \/ \E s \in Sessions : StopSet(s)
  \/ \E t \in Threads : While(t)
  \/ \E t \in Threads : Acquire(t)
  \/ \E t \in Threads : Check(t)
  \/ \E t \in Threads : GenReturn(t)
  \/ \E t \in Threads : PubReturn(t)
  \/ \E t \in Threads : Resched(t)
  \/ \E t \in Threads : Wake5(t)
  \/ \E t \in Threads : Wake30(t)
  \/ Tick

SpecStop == Init /\ [][NextStop]_vars /\ Fairness

\* C17: once stop() is called, every loop thread ends, unless a start() is
\* called first (the calls of generate_blog_content and publish_blog_post
\* return: Fairness).
StopEndsEveryLoop ==
  (\E s \in Sessions : InStop(s))
    ~> (AliveLoops = {} \/ \E s \in Sessions : InStart(s))

\* The part of it that concerns the flag a loop reads: a loop whose flag is
\* cleared ends, unless the flag is set again first.
ClearedFlagEndsLoop ==
  \A t \in Threads :
    (Alive(t) /\ ~LoopRunning(t)) ~> (~Alive(t) \/ LoopRunning(t))

\* ---------------------------------------------------------------- C18
\* The session state as lines 45-48 initialise it: no stop has cleared this
\* flag, so no loop is still to observe one.
Fresh(s) ==
  /\ rev = Current
  /\ session_state[s] = [cron_running |-> FALSE, cron_thread |-> NoThread]
  /\ fpc[s] = "idle"

\* C18: where 'Cron Status' shows Stopped and no stop is still to be observed
\* by a loop, no loop thread is alive; in particular a freshly initialised
\* session state never coexists with a live loop of the same process.
FreshStateMeansNoLoop ==
  \A s \in Sessions : Fresh(s) => AliveLoops = {}

====
